---------------------------- MODULE Spec2Model ----------------------------
(***************************************************************************)
(* A model of hangman.py: the terminal word-guessing game.                 *)
(*                                                                         *)
(* Strings are sequences of one-character strings, so that len(), lower(), *)
(* isalpha(), strip(), startswith() and indexing are computed as Python    *)
(* computes them (ASCII letters only).  A Python list is a sequence, a     *)
(* Python set is a set, a dict is a function whose DOMAIN is its key set.  *)
(* random.choice is a nondeterministic choice of an element.               *)
(***************************************************************************)
EXTENDS Integers, Sequences, FiniteSets, TLC

(***************************************************************************)
(* Bounds of the model                                                     *)
(***************************************************************************)
\* hangman() restarts by calling itself (line 331); the model follows the
\* recursion down to this depth (0 is the first round).
MaxDepth == 1

(***************************************************************************)
(* Characters and the str methods the program uses                         *)
(***************************************************************************)
UpperCase ==
  <<"A", "B", "C", "D", "E", "F", "G", "H", "I", "J", "K", "L", "M",
    "N", "O", "P", "Q", "R", "S", "T", "U", "V", "W", "X", "Y", "Z">>

LowerCase ==
  <<"a", "b", "c", "d", "e", "f", "g", "h", "i", "j", "k", "l", "m",
    "n", "o", "p", "q", "r", "s", "t", "u", "v", "w", "x", "y", "z">>

Range(s) == {s[i] : i \in DOMAIN s}

AlphaChars == Range(UpperCase) \cup Range(LowerCase)

Whitespace == {" ", "\t", "\n"}

\* str.lower() on one character
LowerChar(c) ==
  IF c \in Range(UpperCase)
  THEN LowerCase[CHOOSE i \in DOMAIN UpperCase : UpperCase[i] = c]
  ELSE c

\* str.lower()
lower(s) == [i \in DOMAIN s |-> LowerChar(s[i])]

\* str.isalpha(): false for the empty string
isalpha(s) == Len(s) > 0 /\ \A i \in DOMAIN s : s[i] \in AlphaChars

\* str.startswith(prefix)
startswith(s, prefix) ==
  Len(s) >= Len(prefix) /\ SubSeq(s, 1, Len(prefix)) = prefix

RECURSIVE lstrip(_)
lstrip(s) ==
  IF s = <<>> \/ Head(s) \notin Whitespace THEN s ELSE lstrip(Tail(s))

RECURSIVE rstrip(_)
rstrip(s) ==
  IF s = <<>> \/ s[Len(s)] \notin Whitespace
  THEN s
  ELSE rstrip(SubSeq(s, 1, Len(s) - 1))

\* str.strip()
strip(s) == rstrip(lstrip(s))

\* "_" * n
Underscores(n) == [i \in 1..n |-> "_"]

(***************************************************************************)
(* String literals of the program                                          *)
(***************************************************************************)
\* Mutant of EXIT: another token ends the session
EXIT_Letter == <<"q">>

EXIT == <<"0">>
YES == <<"y">>
EASY == <<"e", "a", "s", "y">>
MEDIUM == <<"m", "e", "d", "i", "u", "m">>
HARD == <<"h", "a", "r", "d">>
CUSTOM == <<"c", "u", "s", "t", "o", "m">>
OCEAN == <<"o", "c", "e", "a", "n">>
DEFAULT == <<"d", "e", "f", "a", "u", "l", "t">>

FALLBACK_HINT ==
  <<"T", "h", "i", "s", " ", "w", "o", "r", "d", " ", "h", "a", "s",
    " ", "s", "o", "m", "e", "t", "h", "i", "n", "g", " ", "t", "o",
    " ", "d", "o", " ", "w", "i", "t", "h", " ", "i", "t", "s", " ",
    "d", "e", "f", "i", "n", "i", "t", "i", "o", "n", ".">>

(***************************************************************************)
(* Numbers of the program                                                  *)
(***************************************************************************)
START_SCORE == 100
max_hints == 3
HINT_GAP == 2
HINT_PENALTY == 5
LETTER_BONUS == 10

\* Mutant of WORD_BONUS: the whole word earns what one letter earns
WORD_BONUS_AsLetter == LETTER_BONUS

WORD_BONUS == 50
WRONG_WORD_PENALTY == 10

\* Mutant of WRONG_LETTER_PENALTY: a wrong letter costs what a hint costs
WRONG_LETTER_PENALTY_AsHint == HINT_PENALTY

WRONG_LETTER_PENALTY == 10
DEFAULT_LIVES == 5

(***************************************************************************)
(* The environment: the two files, the hint service, the player's input    *)
(***************************************************************************)
CAT == <<"c", "a", "t">>
TACT == <<"t", "a", "c", "t">>
A == <<"a">>

\* wordlist.json: absent, or a JSON object of word lists.  The program
\* takes the lists as they are (no normalisation), and keys may be missing.
JsonAbsent == [found |-> FALSE, doc |-> <<>>]

JsonFull ==
  [found |-> TRUE,
   doc |-> (EASY :> <<CAT, A>>) @@ (MEDIUM :> <<TACT>>) @@ (HARD :> <<CAT>>)]

JsonPartial ==
  [found |-> TRUE,
   doc |-> (EASY :> << <<"C", "a", "t">> >>) @@ (HARD :> <<>>)]

\* words.csv: absent, or rows of fields.
CsvAbsent == [found |-> FALSE, rows |-> <<>>]

CsvEmpty == [found |-> TRUE, rows |-> <<>>]

CsvRows ==
  [found |-> TRUE,
   rows |-> << << <<" ", "T", "a", "c", "t", " ">> >>,
               <<>>,
               << <<"a", "-", "t">>, <<"x">> >>,
               << <<"A", "_">> >>,
               << <<" ">> >> >>]

\* The working directories the game is started in
Files ==
  { [json |-> JsonAbsent, csv |-> CsvAbsent],
    [json |-> JsonFull, csv |-> CsvEmpty],
    [json |-> JsonPartial, csv |-> CsvRows] }

\* What the Gemini call does: it raises, or it returns a text.
ProviderResults ==
  { [ok |-> FALSE, text |-> <<>>],
    [ok |-> TRUE, text |-> <<" ", "p", "e", "t", "\n">>] }

\* Lines typed at the difficulty prompt
DifficultyInputs ==
  { EXIT, <<"1">>, <<"2">>, <<"3">>, <<"4">>, <<"5">>, <<>>,
    EASY, <<"M", "e", "d", "i", "u", "m">>, HARD, CUSTOM }

\* Lines typed at the hint prompt
HintInputs ==
  { EXIT, YES, <<"Y", "e", "s">>, <<"n">>, <<>>, <<"0", "0">> }

\* Letters typed at the guess prompt
GuessLetters == {"c", "a", "t", "x", "y", "z"}

\* Lines typed at the guess prompt
GuessInputs ==
  { EXIT, <<>>, <<"1">>, <<"-">>, <<"C">>, <<"0", "0">>, <<"c", "a">>,
    CAT, <<"C", "A", "T">>, <<"c", "a", "x">>, <<"c", "1", "t">>,
    TACT, <<"t", "a", "x", "t">>, <<"a", "-", "t">>, DEFAULT }
    \cup { <<c>> : c \in GuessLetters }

\* Lines typed at the replay prompt
ReplayInputs == { EXIT, YES, <<"Y", "E", "S">>, <<"n">>, <<>> }

(***************************************************************************)
(* The program's functions                                                 *)
(***************************************************************************)
\* load_words(): the default dict when the file is absent, else the document
load_words(file) ==
  IF file.found
  THEN file.doc
  ELSE (EASY :> <<>>) @@ (MEDIUM :> <<>>) @@ (HARD :> <<>>)

\* [row[0].strip().lower() for row in reader if row]
RECURSIVE CustomWordsOf(_)
CustomWordsOf(rows) ==
  IF rows = <<>>
  THEN <<>>
  ELSE IF Head(rows) # <<>>
       THEN <<lower(strip(Head(rows)[1]))>> \o CustomWordsOf(Tail(rows))
       ELSE CustomWordsOf(Tail(rows))

\* load_custom_words()
load_custom_words(file) ==
  IF file.found THEN CustomWordsOf(file.rows) ELSE <<>>

\* dict.get(key, default)
DictGet(d, key, default) == IF key \in DOMAIN d THEN d[key] ELSE default

\* Mutant of get_word_by_difficulty: the two fallback words are exchanged
get_word_by_difficulty_Exchanged(difficulty, word_dict, custom_words) ==
  IF difficulty = CUSTOM
  THEN IF custom_words # <<>> THEN Range(custom_words) ELSE {DEFAULT}
  ELSE LET words == DictGet(word_dict, difficulty, <<>>)
       IN  IF words # <<>> THEN Range(words) ELSE {OCEAN}

\* get_word_by_difficulty(): the words random.choice may return
get_word_by_difficulty(difficulty, word_dict, custom_words) ==
  IF difficulty = CUSTOM
  THEN IF custom_words # <<>> THEN Range(custom_words) ELSE {OCEAN}
  ELSE LET words == DictGet(word_dict, difficulty, <<>>)
       IN  IF words # <<>> THEN Range(words) ELSE {DEFAULT}

\* Mutant of generate_hint: the exception is swallowed without a fallback text
generate_hint_NoFallback(result) == strip(result.text)

\* generate_hint(): the stripped response, or the fallback when the call raises
generate_hint(result) ==
  IF result.ok THEN strip(result.text) ELSE FALLBACK_HINT

\* Mutant of lives_dict: custom rounds get the medium lives
lives_dict_CustomFive ==
  (EASY :> 7) @@ (MEDIUM :> 5) @@ (HARD :> 3) @@ (CUSTOM :> 5)

\* lives_dict
lives_dict == (EASY :> 7) @@ (MEDIUM :> 5) @@ (HARD :> 3) @@ (CUSTOM :> 6)

\* get_lives_for_difficulty()
get_lives_for_difficulty(difficulty) ==
  DictGet(lives_dict, difficulty, DEFAULT_LIVES)

\* difficulty_map.get(difficulty_input, difficulty_input)
difficulty_map ==
  (<<"1">> :> EASY) @@ (<<"2">> :> MEDIUM) @@ (<<"3">> :> HARD)
    @@ (<<"4">> :> CUSTOM)

DifficultyOf(difficulty_input) ==
  DictGet(difficulty_map, difficulty_input, difficulty_input)

ValidDifficulties == {EASY, MEDIUM, HARD, CUSTOM}

(***************************************************************************)
(* State: the locals of the running hangman() frame and its position       *)
(***************************************************************************)
VARIABLES
  pc,               \* position: "start", "difficulty" (line 163), "loop"
                    \* (line 208), "hint" (line 244), "guess" (line 262),
                    \* "report" (line 309), "replay" (line 324), "exited"
                    \* (a return on the exit token), "done" (line 333)
  depth,            \* recursion depth of hangman() (line 331)
  word_dict,        \* line 151
  customWords,      \* line 152
  difficulty,       \* line 172
  secretWord,       \* line 185
  guessedWord,      \* line 186
  lives,            \* line 189
  maxLives,         \* line 190
  guessedLetters,   \* line 191
  score,            \* line 192
  last_hint_lives,  \* line 196
  hints_used,       \* line 197
  hint,             \* line 253: the hint text last displayed
  outcome,          \* which end-of-round panel was printed (lines 313, 319)
  attempted,        \* history: the single letters read at line 262 this round
  wordGuessed,      \* history: line 273 ran (a correct full-word guess)
  chosen,           \* history: the difficulty of line 172, before line 181
  offers,           \* history: how often line 244 asked in this round
  moves             \* history: the guesses of this round that assigned a local

vars ==
  <<pc, depth, word_dict, customWords, difficulty, secretWord, guessedWord,
    lives, maxLives, guessedLetters, score, last_hint_lives, hints_used,
    hint, outcome, attempted, wordGuessed, chosen, offers, moves>>

\* the locals a round assigns
roundVars ==
  <<difficulty, secretWord, guessedWord, lives, maxLives, guessedLetters,
    score, last_hint_lives, hints_used, hint, outcome, attempted,
    wordGuessed, chosen, offers, moves>>

\* The values that stand for the locals of a frame before they are assigned
NoString == <<>>
NoNumber == 0

Init ==
  /\ pc = "start"
  /\ depth = 0
  /\ word_dict = <<>>
  /\ customWords = <<>>
  /\ difficulty = NoString
  /\ secretWord = NoString
  /\ guessedWord = NoString
  /\ lives = NoNumber
  /\ maxLives = NoNumber
  /\ guessedLetters = {}
  /\ score = NoNumber
  /\ last_hint_lives = NoNumber
  /\ hints_used = NoNumber
  /\ hint = NoString
  /\ outcome = "none"
  /\ attempted = {}
  /\ wordGuessed = FALSE
  /\ chosen = NoString
  /\ offers = 0
  /\ moves = 0

(***************************************************************************)
(* The conditions and expressions of the game loop                         *)
(***************************************************************************)
\* Mutant of LoopGuard: the loop runs on after the word is complete
LoopGuard_LivesOnly(lv, gw, sw) == lv > 0

\* Mutant of LoopGuard: one more turn is played with no life left
LoopGuard_OffByOne(lv, gw, sw) == lv >= 0 /\ gw # sw

\* line 208: while lives > 0 and guessedWord != secretWord
LoopGuard(lv, gw, sw) == lv > 0 /\ gw # sw

\* Mutant of HintOffered: "or" in place of "and"
HintOffered_Or(lhl, lv, hu) ==
  (lhl - lv >= HINT_GAP) \/ (hu < max_hints)

\* Mutant of HintOffered: the offer waits for a third lost life
HintOffered_Strict(lhl, lv, hu) == (lhl - lv > HINT_GAP) /\ (hu < max_hints)

\* line 242: (last_hint_lives - lives >= 2) and (hints_used < max_hints)
HintOffered(lhl, lv, hu) == (lhl - lv >= HINT_GAP) /\ (hu < max_hints)

\* line 252: hint_choice.startswith('y')
HintAccepted(hint_choice) == startswith(hint_choice, YES)

\* line 270: len(guess) == len(secretWord) and guess.isalpha()
IsWordGuess(guess, sw) == Len(guess) = Len(sw) /\ isalpha(guess)

\* Mutant of IsInvalid: the isalpha() test is forgotten
IsInvalid_LengthOnly(guess) == Len(guess) # 1

\* line 284: len(guess) != 1 or not guess.isalpha()
IsInvalid(guess) == Len(guess) # 1 \/ ~isalpha(guess)

\* Mutant of IsDuplicate: the duplicate test is forgotten
IsDuplicate_Never(guess, letters) == FALSE

\* line 289: guess in guessedLetters
IsDuplicate(guess, letters) == guess[1] \in letters

\* line 297: guess in secretWord (a one-character guess)
InWord(guess, sw) == \E i \in DOMAIN sw : sw[i] = guess[1]

\* Mutant of Reveal: only the letter just guessed is shown
Reveal_OnlyGuess(sw, letters, guess) ==
  [i \in DOMAIN sw |-> IF <<sw[i]>> = guess THEN sw[i] ELSE "_"]

\* line 300: the pattern that shows every guessed letter
Reveal(sw, letters, guess) ==
  [i \in DOMAIN sw |->
     IF sw[i] \in letters \/ <<sw[i]>> = guess THEN sw[i] ELSE "_"]

\* Mutant of LoseLife: a wrong guess costs two lives
LoseLife_Two(lv) == lv - 2

\* lines 279, 304: lives -= 1
LoseLife(lv) == lv - 1

\* The position and the locals the loop body may assign, as they are now
Locals ==
  [pc |-> pc, guessedWord |-> guessedWord, lives |-> lives,
   guessedLetters |-> guessedLetters, score |-> score,
   hints_used |-> hints_used, last_hint_lives |-> last_hint_lives,
   hint |-> hint]

\* lines 264-306: one guess read at line 262, and where the loop body goes:
\* "exited" (the return of line 267), "report" (the break of line 275),
\* "loop" (a continue, or the end of the body: back to line 208).
ProcessGuess(guess) ==
  IF guess = EXIT
  THEN [Locals EXCEPT !.pc = "exited"]
  ELSE IF IsWordGuess(guess, secretWord)
  THEN IF guess = secretWord
       THEN [Locals EXCEPT !.pc = "report",
                           !.guessedWord = secretWord,
                           !.score = score + WORD_BONUS]
       ELSE [Locals EXCEPT !.pc = "loop",
                           !.lives = LoseLife(lives),
                           !.score = score - WRONG_WORD_PENALTY]
  ELSE IF IsInvalid(guess)
  THEN [Locals EXCEPT !.pc = "loop"]
  ELSE IF IsDuplicate(guess, guessedLetters)
  THEN [Locals EXCEPT !.pc = "loop"]
  ELSE LET letters == guessedLetters \cup {guess[1]}
       IN  IF InWord(guess, secretWord)
           THEN [Locals EXCEPT
                   !.pc = "loop",
                   !.guessedLetters = letters,
                   !.guessedWord = Reveal(secretWord, letters, guess),
                   !.score = score + LETTER_BONUS]
           ELSE [Locals EXCEPT
                   !.pc = "loop",
                   !.guessedLetters = letters,
                   !.lives = LoseLife(lives),
                   !.score = score - WRONG_LETTER_PENALTY]

\* Mutant of ProcessHint: line 259 runs only when the hint was accepted
ProcessHint_ResetOnAccept(hint_choice, result) ==
  IF hint_choice = EXIT
  THEN [Locals EXCEPT !.pc = "exited"]
  ELSE IF HintAccepted(hint_choice)
  THEN [Locals EXCEPT !.pc = "guess",
                      !.hint = generate_hint(result),
                      !.hints_used = hints_used + 1,
                      !.score = score - HINT_PENALTY,
                      !.last_hint_lives = lives]
  ELSE [Locals EXCEPT !.pc = "guess"]

\* lines 246-259: one answer read at line 244; result is what the hint
\* service does if it is called
ProcessHint(hint_choice, result) ==
  IF hint_choice = EXIT
  THEN [Locals EXCEPT !.pc = "exited"]
  ELSE IF HintAccepted(hint_choice)
  THEN [Locals EXCEPT !.pc = "guess",
                      !.hint = generate_hint(result),
                      !.hints_used = hints_used + 1,
                      !.score = score - HINT_PENALTY,
                      !.last_hint_lives = lives]
  ELSE [Locals EXCEPT !.pc = "guess",
                      !.last_hint_lives = lives]

\* Mutant of ReportOf: the reset of line 318 is forgotten
ReportOf_KeepsScore(gw, sw, sc) ==
  IF gw = sw
  THEN [outcome |-> "Win", score |-> sc]
  ELSE [outcome |-> "Loss", score |-> sc]

\* lines 311-321: the panel printed and the score reported
ReportOf(gw, sw, sc) ==
  IF gw = sw
  THEN [outcome |-> "Win", score |-> sc]
  ELSE [outcome |-> "Loss", score |-> 0]

\* Mutant of PlayedDifficulty: the fallback to medium is forgotten
PlayedDifficulty_NoFallback(picked, custom_words) == picked

\* lines 180-182: custom without custom words is played as medium
PlayedDifficulty(picked, custom_words) ==
  IF picked = CUSTOM /\ custom_words = <<>> THEN MEDIUM ELSE picked

\* lines 166-177: where one answer to the difficulty prompt leads
DifficultyTarget(difficulty_input) ==
  IF difficulty_input = EXIT
  THEN "exited"
  ELSE IF DifficultyOf(difficulty_input) \notin ValidDifficulties
       THEN "difficulty"
       ELSE "loop"

\* lines 326-333: where one answer to the replay prompt leads
ReplayTarget(playAgain) ==
  IF playAgain = EXIT
  THEN "exited"
  ELSE IF startswith(playAgain, YES) THEN "start" ELSE "done"

(***************************************************************************)
(* Actions: from one position of hangman() to the next                     *)
(***************************************************************************)
\* lines 146-159: a frame of hangman() loads the two files
Start ==
  /\ pc = "start"
  /\ \E dir \in Files :
       /\ word_dict' = load_words(dir.json)
       /\ customWords' = load_custom_words(dir.csv)
  /\ pc' = "difficulty"
  /\ UNCHANGED <<depth, roundVars>>

\* lines 163-197: one answer to the difficulty prompt
ChooseDifficulty ==
  /\ pc = "difficulty"
  /\ \E raw \in DifficultyInputs :
       LET difficulty_input == lower(raw)
           mapped == DifficultyOf(difficulty_input)
           played == PlayedDifficulty(mapped, customWords)
           target == DifficultyTarget(difficulty_input)
       IN
       /\ pc' = target
       /\ IF target = "exited"
          THEN UNCHANGED roundVars
          ELSE IF target = "difficulty"
          THEN /\ difficulty' = mapped
               /\ chosen' = mapped
               /\ UNCHANGED <<secretWord, guessedWord, lives, maxLives,
                              guessedLetters, score, last_hint_lives,
                              hints_used, hint, outcome, attempted,
                              wordGuessed, offers, moves>>
          ELSE /\ difficulty' = played
               /\ chosen' = mapped
               /\ secretWord' \in
                    get_word_by_difficulty(played, word_dict, customWords)
               /\ guessedWord' = Underscores(Len(secretWord'))
               /\ lives' = get_lives_for_difficulty(played)
               /\ maxLives' = lives'
               /\ guessedLetters' = {}
               /\ score' = START_SCORE
               /\ last_hint_lives' = maxLives'
               /\ hints_used' = 0
               /\ UNCHANGED <<hint, outcome, attempted, wordGuessed,
                              offers, moves>>
  /\ UNCHANGED <<depth, word_dict, customWords>>

\* lines 208-242: the loop test, the display, and the hint condition
LoopHead ==
  /\ pc = "loop"
  /\ pc' = IF LoopGuard(lives, guessedWord, secretWord)
           THEN IF HintOffered(last_hint_lives, lives, hints_used)
                THEN "hint"
                ELSE "guess"
           ELSE "report"
  /\ offers' = IF pc' = "hint" THEN offers + 1 ELSE offers
  /\ UNCHANGED <<depth, word_dict, customWords, difficulty, secretWord,
                 guessedWord, lives, maxLives, guessedLetters, score,
                 last_hint_lives, hints_used, hint, outcome, attempted,
                 wordGuessed, chosen, moves>>

\* lines 244-259: one answer to the hint offer
AnswerHint ==
  /\ pc = "hint"
  /\ \E raw \in HintInputs, result \in ProviderResults :
       LET r == ProcessHint(lower(raw), result)
       IN  /\ pc' = r.pc
           /\ guessedWord' = r.guessedWord
           /\ lives' = r.lives
           /\ guessedLetters' = r.guessedLetters
           /\ score' = r.score
           /\ hints_used' = r.hints_used
           /\ last_hint_lives' = r.last_hint_lives
           /\ hint' = r.hint
  /\ UNCHANGED <<depth, word_dict, customWords, difficulty, secretWord,
                 maxLives, outcome, attempted, wordGuessed, chosen, offers,
                 moves>>

\* lines 262-306: one answer to the guess prompt
Guess ==
  /\ pc = "guess"
  /\ \E raw \in GuessInputs :
       LET guess == lower(raw)
           r == ProcessGuess(guess)
       IN  /\ pc' = r.pc
           /\ guessedWord' = r.guessedWord
           /\ lives' = r.lives
           /\ guessedLetters' = r.guessedLetters
           /\ score' = r.score
           /\ hints_used' = r.hints_used
           /\ last_hint_lives' = r.last_hint_lives
           /\ hint' = r.hint
           /\ attempted' = IF Len(guess) = 1 /\ isalpha(guess)
                           THEN attempted \cup {guess[1]}
                           ELSE attempted
           /\ wordGuessed' = (r.pc = "report")
           /\ moves' = IF [r EXCEPT !.pc = pc] = Locals
                       THEN moves
                       ELSE moves + 1
  /\ UNCHANGED <<depth, word_dict, customWords, difficulty, secretWord,
                 maxLives, outcome, chosen, offers>>

\* lines 309-321: the end-of-round report
Report ==
  /\ pc = "report"
  /\ LET r == ReportOf(guessedWord, secretWord, score)
     IN  /\ outcome' = r.outcome
         /\ score' = r.score
  /\ pc' = "replay"
  /\ UNCHANGED <<depth, word_dict, customWords, difficulty, secretWord,
                 guessedWord, lives, maxLives, guessedLetters,
                 last_hint_lives, hints_used, hint, attempted, wordGuessed,
                 chosen, offers, moves>>

\* lines 324-333: one answer to the replay prompt.  hangman() calls itself:
\* the new frame starts with no local assigned.
Replay ==
  /\ pc = "replay"
  /\ \E raw \in ReplayInputs :
       LET playAgain == lower(raw)
           target == ReplayTarget(playAgain)
       IN
       /\ pc' = target
       /\ IF target = "start"
          THEN /\ depth < MaxDepth
               /\ depth' = depth + 1
               /\ word_dict' = <<>>
               /\ customWords' = <<>>
               /\ difficulty' = NoString
               /\ secretWord' = NoString
               /\ guessedWord' = NoString
               /\ lives' = NoNumber
               /\ maxLives' = NoNumber
               /\ guessedLetters' = {}
               /\ score' = NoNumber
               /\ last_hint_lives' = NoNumber
               /\ hints_used' = NoNumber
               /\ hint' = NoString
               /\ outcome' = "none"
               /\ attempted' = {}
               /\ wordGuessed' = FALSE
               /\ chosen' = NoString
               /\ offers' = 0
               /\ moves' = 0
          ELSE UNCHANGED <<depth, word_dict, customWords, roundVars>>

Next ==
  \/ Start
  \/ ChooseDifficulty
  \/ LoopHead
  \/ AnswerHint
  \/ Guess
  \/ Report
  \/ Replay

Spec == Init /\ [][Next]_vars

(***************************************************************************)
(* Vocabulary of the properties                                            *)
(***************************************************************************)
\* a round has been set up in this frame
RoundStarted == maxLives > 0

\* the guesses the loop body may be given (line 262 lowers the line typed)
GuessesRead == {lower(raw) : raw \in GuessInputs}

\* the answers to the hint offer (line 244 lowers the line typed)
HintAnswers == {lower(raw) : raw \in HintInputs}

\* a single alphabetic character
SingleLetter(g) == Len(g) = 1 /\ g[1] \in AlphaChars

\* an alphabetic string of the secret word's length
WordLength(g) ==
  /\ Len(g) = Len(secretWord)
  /\ Len(g) > 0
  /\ \A i \in DOMAIN g : g[i] \in AlphaChars

\* the letter occurs in the secret word
Occurs(c) == \E i \in DOMAIN secretWord : secretWord[i] = c

\* the guess leaves every local of the round as it is
NothingChanged(r) ==
  /\ r.guessedWord = guessedWord
  /\ r.lives = lives
  /\ r.guessedLetters = guessedLetters
  /\ r.score = score
  /\ r.hints_used = hints_used
  /\ r.last_hint_lives = last_hint_lives

(***************************************************************************)
(* C1                                                                      *)
(***************************************************************************)
\* C1: a round that is not exited ends in Win exactly when the revealed
\* pattern equals the secret word, and in Loss exactly when lives reached 0
\* with the pattern still different; no state has lives = 0 together with
\* a complete pattern, and the report is one of Win and Loss, never both.
C1_WinXorLoss ==
  /\ RoundStarted => ~(lives = 0 /\ guessedWord = secretWord)
  /\ pc = "report" => (guessedWord = secretWord) # (lives = 0)
  /\ pc \in {"replay", "done"} =>
       /\ outcome \in {"Win", "Loss"}
       /\ outcome = "Win" <=> guessedWord = secretWord
       /\ outcome = "Loss" <=> (lives = 0 /\ guessedWord # secretWord)
  /\ (RoundStarted /\ pc \notin {"replay", "done", "exited"}) =>
       outcome = "none"

\* a round lost after some letters were revealed
C1_Witness ==
  /\ pc = "replay"
  /\ outcome = "Loss"
  /\ lives = 0
  /\ \E i \in DOMAIN guessedWord : guessedWord[i] # "_"

(***************************************************************************)
(* C2                                                                      *)
(***************************************************************************)
\* what C2 says of one guess g with result r
C2_Effect(g, r) ==
  /\ r.guessedLetters = guessedLetters \cup {g[1]}
  /\ DOMAIN r.guessedWord = DOMAIN secretWord
  /\ \A i \in DOMAIN secretWord :
       r.guessedWord[i] =
         IF secretWord[i] = g[1] THEN secretWord[i] ELSE guessedWord[i]
  /\ r.score = score + 10
  /\ r.lives = lives
  /\ r.hints_used = hints_used
  /\ r.last_hint_lives = last_hint_lives

\* C2 as stated: a single-letter guess not yet in guessedLetters that occurs
\* in the secret word is added to guessedLetters, reveals every position
\* holding it and hides none, adds exactly 10 to score, and leaves lives,
\* hintsUsed and lastHintLives unchanged.
C2_Original ==
  pc = "guess" =>
    \A g \in GuessesRead :
      (SingleLetter(g) /\ g[1] \notin guessedLetters /\ Occurs(g[1]))
        => C2_Effect(g, ProcessGuess(g))

\* C2 amended: the same, for a secret word that is not one character long
\* (a one-character input is then a full-word guess, line 270).
C2_CorrectLetter ==
  (pc = "guess" /\ Len(secretWord) # 1) =>
    \A g \in GuessesRead :
      (SingleLetter(g) /\ g[1] \notin guessedLetters /\ Occurs(g[1]))
        => C2_Effect(g, ProcessGuess(g))

\* a second letter of a longer word has just been revealed
C2_Witness ==
  /\ pc = "loop"
  /\ Len(secretWord) > 1
  /\ Cardinality({c \in guessedLetters : Occurs(c)}) = 2
  /\ score = 120
  /\ lives = maxLives

(***************************************************************************)
(* C3                                                                      *)
(***************************************************************************)
\* what C3 says of a wrong guess with result r
C3_Cost(r) ==
  /\ r.lives = lives - 1
  /\ r.score = score - 10
  /\ r.guessedWord = guessedWord
  /\ r.hints_used = hints_used
  /\ r.last_hint_lives = last_hint_lives

\* C3, the full-word half: an alphabetic input of the secret word's length
\* that differs from the secret word costs one life and 10 points and
\* leaves guessedLetters and the pattern unchanged.
C3_WrongWord ==
  \A g \in GuessesRead :
    (WordLength(g) /\ g # secretWord) =>
      LET r == ProcessGuess(g)
      IN  C3_Cost(r) /\ r.guessedLetters = guessedLetters

\* C3 as stated: a new single letter not in the secret word is added to
\* guessedLetters at the cost of one life and 10 points, and the full-word
\* half.
C3_Original ==
  pc = "guess" =>
    /\ \A g \in GuessesRead :
         (SingleLetter(g) /\ g[1] \notin guessedLetters /\ ~Occurs(g[1])) =>
           LET r == ProcessGuess(g)
           IN  C3_Cost(r) /\ r.guessedLetters = guessedLetters \cup {g[1]}
    /\ C3_WrongWord

\* C3 amended: the single-letter half holds for a secret word that is not
\* one character long; for a one-character secret word the letter is a wrong
\* full-word guess and is not added to guessedLetters.
C3_WrongGuess ==
  pc = "guess" =>
    /\ \A g \in GuessesRead :
         (SingleLetter(g) /\ g[1] \notin guessedLetters /\ ~Occurs(g[1])
            /\ Len(secretWord) # 1) =>
           LET r == ProcessGuess(g)
           IN  C3_Cost(r) /\ r.guessedLetters = guessedLetters \cup {g[1]}
    /\ C3_WrongWord

\* a wrong letter and a wrong word have both been paid for
C3_Witness ==
  /\ pc = "loop"
  /\ Len(secretWord) > 1
  /\ Cardinality(guessedLetters) = 1
  /\ \A c \in guessedLetters : ~Occurs(c)
  /\ lives = maxLives - 2
  /\ score = 80

(***************************************************************************)
(* C4                                                                      *)
(***************************************************************************)
\* C4: from any playing state a full-word guess (an alphabetic input of the
\* secret word's length, line 270) equal to the secret word
\* reveals the whole pattern, adds exactly 50 to score, leaves lives and
\* guessedLetters unchanged and goes straight to the report, which is a Win;
\* as the first action of a round the reported score is 150.
C4_CorrectWord ==
  /\ pc = "guess" =>
       /\ lives > 0 /\ guessedWord # secretWord
       /\ \A g \in GuessesRead :
            (WordLength(g) /\ g = secretWord) =>
              LET r == ProcessGuess(g)
              IN  /\ r.guessedWord = secretWord
                  /\ r.score = score + 50
                  /\ r.lives = lives
                  /\ r.guessedLetters = guessedLetters
                  /\ r.pc = "report"
  /\ (pc = "report" /\ wordGuessed) => guessedWord = secretWord
  /\ (pc \in {"replay", "done"} /\ wordGuessed) =>
       /\ outcome = "Win"
       /\ (lives = maxLives /\ guessedLetters = {} /\ hints_used = 0)
            => score = 150

\* the word was guessed whole as the first action of the round
C4_Witness ==
  /\ pc = "replay"
  /\ wordGuessed
  /\ lives = maxLives
  /\ guessedLetters = {}
  /\ attempted = {}
  /\ score = 150

(***************************************************************************)
(* C5                                                                      *)
(***************************************************************************)
\* C5 as stated: for a secret word of any length >= 1, a single letter that
\* was already attempted in this round changes nothing.
C5_Original ==
  (pc = "guess" /\ Len(secretWord) >= 1) =>
    \A g \in GuessesRead :
      (SingleLetter(g) /\ g[1] \in attempted) =>
        NothingChanged(ProcessGuess(g))

\* C5 amended: for a secret word of length >= 2, a single letter that was
\* already attempted in this round changes nothing (for a one-character
\* secret word a repeated wrong letter is a wrong full-word guess again).
C5_Duplicate ==
  (pc = "guess" /\ Len(secretWord) >= 2) =>
    \A g \in GuessesRead :
      (SingleLetter(g) /\ g[1] \in attempted) =>
        NothingChanged(ProcessGuess(g))

\* a wrong letter and a right letter have been attempted, and a guess is read
C5_Witness ==
  /\ pc = "guess"
  /\ Len(secretWord) >= 2
  /\ \E c \in attempted : Occurs(c)
  /\ \E c \in attempted : ~Occurs(c)

(***************************************************************************)
(* C6                                                                      *)
(***************************************************************************)
\* C6: an input that is neither the exit token, nor an alphabetic string of
\* the secret word's length, nor a single alphabetic character changes no
\* local of the round, and the loop goes on to a new prompt.
C6_Invalid ==
  pc = "guess" =>
    \A g \in GuessesRead :
      (g # <<"0">> /\ ~WordLength(g) /\ ~SingleLetter(g)) =>
        LET r == ProcessGuess(g)
        IN  /\ NothingChanged(r)
            /\ r.hint = hint
            /\ r.pc = "loop"
            /\ r.lives > 0
            /\ r.guessedWord # secretWord

\* in the middle of a round, a guess prompt at which an input of the wrong
\* length and a non-alphabetic input can be typed
C6_Witness ==
  /\ pc = "guess"
  /\ lives < maxLives
  /\ guessedLetters # {}
  /\ \E g \in GuessesRead :
       /\ g # <<"0">> /\ ~WordLength(g) /\ ~SingleLetter(g)
       /\ Len(g) = 1
       /\ ProcessGuess(g).pc = "loop"
  /\ \E g \in GuessesRead :
       /\ g # <<"0">> /\ ~WordLength(g) /\ ~SingleLetter(g)
       /\ Len(g) > 1
       /\ ProcessGuess(g).pc = "loop"

(***************************************************************************)
(* C7                                                                      *)
(***************************************************************************)
\* C7: the pattern is as long as the secret word; position i shows the true
\* letter iff that letter is in guessedLetters or the word was guessed whole;
\* every other position shows the placeholder.  A secret word that holds the
\* placeholder character itself (a custom word such as "a_") refutes it:
\* line 186 already shows that position's true character.
C7_Pattern ==
  RoundStarted =>
    /\ Len(guessedWord) = Len(secretWord)
    /\ \A i \in DOMAIN secretWord :
         /\ guessedWord[i] = secretWord[i]
              <=> (secretWord[i] \in guessedLetters \/ wordGuessed)
         /\ guessedWord[i] # secretWord[i] => guessedWord[i] = "_"

(***************************************************************************)
(* C8                                                                      *)
(***************************************************************************)
\* C8: within a round every step keeps guessedLetters (as a subset), keeps
\* every revealed position revealed, never raises lives, lowers it by at
\* most 1 and keeps it within 0..maxLives; no guess is read with 0 lives.
C8_OneWay ==
  /\ [](pc = "guess" => lives > 0)
  /\ [](RoundStarted => (lives >= 0 /\ lives <= maxLives))
  /\ [][(RoundStarted /\ RoundStarted') =>
          /\ guessedLetters \subseteq guessedLetters'
          /\ \A i \in DOMAIN guessedWord :
               guessedWord[i] = secretWord[i] =>
                 guessedWord'[i] = secretWord[i]
          /\ lives' <= lives
          /\ lives' >= lives - 1
          /\ maxLives' = maxLives]_vars

\* the last life has just been lost with letters revealed and guessed
C8_Witness ==
  /\ pc = "loop"
  /\ lives = 0
  /\ Cardinality(guessedLetters) >= 3
  /\ \E i \in DOMAIN guessedWord : guessedWord[i] # "_"

(***************************************************************************)
(* C9                                                                      *)
(***************************************************************************)
\* C9: at the start of a turn a hint is offered iff
\* lastHintLives - lives >= 2 and hintsUsed < 3; an offer answered with
\* anything but the exit token sets lastHintLives to lives, accepted or
\* declined, and goes on to the guess prompt, so the next offer needs two
\* more lost lives.
C9_Offer ==
  /\ [](pc = "hint" => (last_hint_lives - lives >= 2 /\ hints_used < 3))
  /\ [](pc = "guess" => ~(last_hint_lives - lives >= 2 /\ hints_used < 3))
  /\ [](pc = "hint" =>
          \A hc \in HintAnswers, result \in ProviderResults :
            hc # <<"0">> =>
              LET r == ProcessHint(hc, result)
              IN  /\ r.last_hint_lives = lives
                  /\ r.lives = lives
                  /\ r.pc = "guess")
  /\ [][(pc = "loop" /\ lives > 0 /\ guessedWord # secretWord) =>
          /\ pc' = "hint"
               <=> (last_hint_lives - lives >= 2 /\ hints_used < 3)
          /\ pc' \in {"hint", "guess"}
          /\ last_hint_lives' = last_hint_lives]_vars

\* a second offer has been answered: both were declined
C9_Witness ==
  /\ pc = "guess"
  /\ lives = maxLives - 4
  /\ last_hint_lives = lives
  /\ hints_used = 0

(***************************************************************************)
(* C10                                                                     *)
(***************************************************************************)
\* C10: an accepted hint adds exactly 1 to hintsUsed and takes exactly 5
\* from score whether the hint service answers or fails; a failure shows
\* the fixed fallback text and the round goes on to the guess prompt; lives,
\* guessedLetters and the pattern are unchanged; a declined hint changes
\* neither hintsUsed nor score.
C10_Hint ==
  pc = "hint" =>
    \A hc \in HintAnswers, result \in ProviderResults :
      LET r == ProcessHint(hc, result)
          accepted == Len(hc) >= 1 /\ hc[1] = "y"
      IN  /\ accepted =>
               /\ r.hints_used = hints_used + 1
               /\ r.score = score - 5
               /\ ~result.ok => r.hint = FALLBACK_HINT
               /\ r.pc = "guess"
               /\ r.lives = lives
               /\ r.guessedLetters = guessedLetters
               /\ r.guessedWord = guessedWord
          /\ (~accepted /\ hc # <<"0">>) =>
               /\ r.hints_used = hints_used
               /\ r.score = score
               /\ r.hint = hint

\* a hint was accepted after two wrong guesses and the hint service failed
C10_Witness ==
  /\ pc = "guess"
  /\ hints_used = 1
  /\ hint = FALLBACK_HINT
  /\ lives = maxLives - 2
  /\ score = 75

(***************************************************************************)
(* C11                                                                     *)
(***************************************************************************)
\* C11: in every state of every round hints_used is one of 0, 1, 2, 3, and no
\* step of a round makes it smaller.
C11_HintsUsed ==
  /\ [](RoundStarted => hints_used \in 0..3)
  /\ [][(RoundStarted /\ RoundStarted') => hints_used' >= hints_used]_vars

\* a replayed round in which the third hint was taken
C11_Witness ==
  /\ RoundStarted
  /\ depth = 1
  /\ hints_used = 3
  /\ pc = "guess"

(***************************************************************************)
(* C12                                                                     *)
(***************************************************************************)
\* C12: the report of a lost round (no life left, the pattern incomplete)
\* sets the score to 0 whatever was accumulated, the report of a won round
\* (the pattern complete) leaves the accumulated score as it is; the reported
\* score then stays until the session ends or a new round starts.
C12_ReportedScore ==
  /\ [][pc = "report" =>
          /\ pc' = "replay"
          /\ (lives = 0 /\ guessedWord # secretWord)
               => (outcome' = "Loss" /\ score' = 0)
          /\ guessedWord = secretWord
               => (outcome' = "Win" /\ score' = score)]_vars
  /\ []((pc \in {"replay", "done"} /\ outcome = "Loss") => score = 0)
  /\ [][(pc = "replay" /\ pc' \in {"done", "exited"})
          => (score' = score /\ outcome' = outcome)]_vars

\* a Loss reported with score 0 after three hints and a correct letter
C12_Witness ==
  /\ pc = "replay"
  /\ outcome = "Loss"
  /\ score = 0
  /\ lives = 0
  /\ hints_used = 3
  /\ \E c \in guessedLetters : Occurs(c)

(***************************************************************************)
(* C13                                                                     *)
(***************************************************************************)
\* C13: the input "0" at the difficulty prompt, the hint offer, the guess
\* prompt and the replay prompt, in a first or a replayed round, leads to the
\* exit; the step to the exit changes no variable of the round; no report was
\* made when the exit is taken during play; after the exit nothing happens.
C13_Exit ==
  /\ [](pc = "difficulty" => DifficultyTarget(<<"0">>) = "exited")
  /\ [](pc = "hint" =>
          \A result \in ProviderResults :
            ProcessHint(<<"0">>, result) = [Locals EXCEPT !.pc = "exited"])
  /\ [](pc = "guess" =>
          ProcessGuess(<<"0">>) = [Locals EXCEPT !.pc = "exited"])
  /\ [](pc = "replay" => ReplayTarget(<<"0">>) = "exited")
  /\ [](pc \in {"difficulty", "loop", "hint", "guess"} => outcome = "none")
  /\ [][pc' = "exited" =>
          UNCHANGED <<depth, word_dict, customWords, roundVars>>]_vars
  /\ [][pc # "exited"]_vars

\* the exit taken during play in a replayed round, after a lost life
C13_Witness ==
  /\ pc = "exited"
  /\ depth = 1
  /\ RoundStarted
  /\ lives < maxLives
  /\ lives > 0
  /\ guessedWord # secretWord
  /\ outcome = "none"

(***************************************************************************)
(* C14                                                                     *)
(***************************************************************************)
C14_StartingLives(d) ==
  CASE d = <<"e", "a", "s", "y">> -> 7
    [] d = <<"m", "e", "d", "i", "u", "m">> -> 5
    [] d = <<"h", "a", "r", "d">> -> 3
    [] d = <<"c", "u", "s", "t", "o", "m">> -> 6
    [] OTHER -> 5

\* C14: the step that starts a round, in the first and in every replayed one,
\* gives lives = maxLives = last_hint_lives = the starting lives of the
\* difficulty played (7, 5, 3, 6; 5 for any other string), score 100, no
\* guessed letter, no hint used and a pattern of placeholders, with nothing
\* left from an earlier round; an answer to the replay prompt that starts
\* with "y" leads to the difficulty prompt of a new round whose locals are all
\* unassigned, any other answer but "0" ends the session.
C14_FreshRound ==
  /\ [][(pc = "difficulty" /\ pc' = "loop") =>
          /\ lives' = C14_StartingLives(difficulty')
          /\ maxLives' = lives'
          /\ last_hint_lives' = lives'
          /\ score' = 100
          /\ guessedLetters' = {}
          /\ hints_used' = 0
          /\ Len(guessedWord') = Len(secretWord')
          /\ \A i \in 1..Len(guessedWord') : guessedWord'[i] = "_"
          /\ hint' = <<>>
          /\ outcome' = "none"
          /\ attempted' = {}
          /\ wordGuessed' = FALSE
          /\ offers' = 0
          /\ moves' = 0]_vars
  /\ [](pc = "difficulty" =>
          \A raw \in DifficultyInputs :
            get_lives_for_difficulty(DifficultyOf(lower(raw)))
              = C14_StartingLives(DifficultyOf(lower(raw))))
  /\ [](pc = "replay" =>
          \A raw \in ReplayInputs :
            LET playAgain == lower(raw)
            IN  playAgain # <<"0">> =>
                  ReplayTarget(playAgain)
                    = IF playAgain # <<>> /\ playAgain[1] = "y"
                      THEN "start"
                      ELSE "done")
  /\ [][(pc = "replay" /\ pc' = "start") =>
          /\ word_dict' = <<>> /\ customWords' = <<>>
          /\ difficulty' = <<>> /\ secretWord' = <<>> /\ guessedWord' = <<>>
          /\ lives' = 0 /\ maxLives' = 0 /\ last_hint_lives' = 0
          /\ score' = 0 /\ hints_used' = 0 /\ guessedLetters' = {}
          /\ hint' = <<>> /\ outcome' = "none"]_vars
  /\ [][pc = "start" => pc' = "difficulty"]_vars
  /\ [][pc # "done"]_vars

\* a replayed custom round before its first turn
C14_Witness ==
  /\ pc = "loop"
  /\ depth = 1
  /\ difficulty = <<"c", "u", "s", "t", "o", "m">>
  /\ lives = 6 /\ maxLives = 6 /\ last_hint_lives = 6
  /\ score = 100
  /\ guessedLetters = {}
  /\ attempted = {}
  /\ guessedWord = <<"_", "_", "_", "_">>

(***************************************************************************)
(* Word selection on its own: get_word_by_difficulty() applied to every    *)
(* difficulty string, word dictionary and custom list below                *)
(***************************************************************************)
SelectDifficulties ==
  ValidDifficulties \cup { <<"5">>, <<>>, <<"E", "a", "s", "y">> }

SelectDicts == { load_words(f.json) : f \in Files }

SelectCustom == { load_custom_words(f.csv) : f \in Files } \cup { <<CAT>> }

InitSelect ==
  /\ pc = "select"
  /\ depth = 0
  /\ word_dict \in SelectDicts
  /\ customWords \in SelectCustom
  /\ difficulty \in SelectDifficulties
  /\ secretWord = NoString
  /\ guessedWord = NoString
  /\ lives = NoNumber
  /\ maxLives = NoNumber
  /\ guessedLetters = {}
  /\ score = NoNumber
  /\ last_hint_lives = NoNumber
  /\ hints_used = NoNumber
  /\ hint = NoString
  /\ outcome = "none"
  /\ attempted = {}
  /\ wordGuessed = FALSE
  /\ chosen = NoString
  /\ offers = 0
  /\ moves = 0

\* lines 83-89: one call, one word returned
SelectWord ==
  /\ pc = "select"
  /\ secretWord' \in get_word_by_difficulty(difficulty, word_dict, customWords)
  /\ pc' = "selected"
  /\ UNCHANGED <<depth, word_dict, customWords, difficulty, guessedWord,
                 lives, maxLives, guessedLetters, score, last_hint_lives,
                 hints_used, hint, outcome, attempted, wordGuessed, chosen,
                 offers, moves>>

SpecSelect == InitSelect /\ [][SelectWord]_vars

(***************************************************************************)
(* C15                                                                     *)
(***************************************************************************)
\* C15: the call always has a word to return, and the word returned is a
\* string; for easy, medium and hard it is an element of that tier's list
\* when the dictionary has a non-empty list for the tier and "default"
\* otherwise; for custom it is an element of the custom list when that list is
\* not empty and "ocean" otherwise.
C15_Selection ==
  /\ pc = "select" =>
       get_word_by_difficulty(difficulty, word_dict, customWords) # {}
  /\ pc = "selected" =>
       /\ DOMAIN secretWord = 1..Len(secretWord)
       /\ difficulty \in { <<"e", "a", "s", "y">>,
                           <<"m", "e", "d", "i", "u", "m">>,
                           <<"h", "a", "r", "d">> } =>
            IF difficulty \in DOMAIN word_dict /\ word_dict[difficulty] # <<>>
            THEN \E i \in DOMAIN word_dict[difficulty] :
                   secretWord = word_dict[difficulty][i]
            ELSE secretWord = <<"d", "e", "f", "a", "u", "l", "t">>
       /\ difficulty = <<"c", "u", "s", "t", "o", "m">> =>
            IF customWords # <<>>
            THEN \E i \in DOMAIN customWords : secretWord = customWords[i]
            ELSE secretWord = <<"o", "c", "e", "a", "n">>

\* custom selected with an empty custom list: "ocean" returned
C15_Witness ==
  /\ pc = "selected"
  /\ difficulty = <<"c", "u", "s", "t", "o", "m">>
  /\ customWords = <<>>
  /\ secretWord = <<"o", "c", "e", "a", "n">>

(***************************************************************************)
(* C16                                                                     *)
(***************************************************************************)
\* C16: with an empty custom list, the answers "custom" and "4" to the
\* difficulty prompt start a medium round: 5 lives, and a secret word from the
\* medium list, or "default" when the dictionary has no non-empty medium list;
\* and no round has the secret word "ocean" unless a word list holds it.
C16_CustomFallback ==
  /\ [](pc = "difficulty" /\ customWords = <<>> =>
          \A raw \in { <<"4">>, <<"c", "u", "s", "t", "o", "m">>,
                       <<"C", "u", "s", "t", "o", "m">> } :
            /\ DifficultyTarget(lower(raw)) = "loop"
            /\ PlayedDifficulty(DifficultyOf(lower(raw)), customWords)
                 = <<"m", "e", "d", "i", "u", "m">>)
  /\ [][(pc = "difficulty" /\ pc' = "loop" /\ customWords = <<>>
          /\ chosen' = <<"c", "u", "s", "t", "o", "m">>) =>
          LET medium == <<"m", "e", "d", "i", "u", "m">>
          IN  /\ difficulty' = medium
              /\ lives' = 5
              /\ maxLives' = 5
              /\ IF medium \in DOMAIN word_dict /\ word_dict[medium] # <<>>
                 THEN \E i \in DOMAIN word_dict[medium] :
                        secretWord' = word_dict[medium][i]
                 ELSE secretWord' = <<"d", "e", "f", "a", "u", "l", "t">>]_vars
  /\ []((RoundStarted /\ secretWord = <<"o", "c", "e", "a", "n">>) =>
          \/ \E i \in DOMAIN customWords : customWords[i] = secretWord
          \/ \E d \in DOMAIN word_dict :
               \E i \in DOMAIN word_dict[d] : word_dict[d][i] = secretWord)

\* custom chosen with an empty words.csv and a medium list: the round is in
\* play on medium with a word of that list
C16_Witness ==
  /\ pc = "guess"
  /\ chosen = <<"c", "u", "s", "t", "o", "m">>
  /\ customWords = <<>>
  /\ difficulty = <<"m", "e", "d", "i", "u", "m">>
  /\ maxLives = 5
  /\ secretWord = <<"t", "a", "c", "t">>

(***************************************************************************)
(* C17                                                                     *)
(***************************************************************************)
\* C17: until a Loss is reported, the score of a round is 100, plus 10 for
\* every guessed letter that occurs in the secret word, minus 10 for every
\* life lost, minus 5 for every hint used, plus 50 when the round was won by
\* a correct full-word guess.  With the secret word "cat" on hard, the four
\* guesses c, z, a, t end as a Win with 2 lives and score 120, and the three
\* guesses x, y, z end as a Loss with reported score 0.
C17_ScoreFormula ==
  /\ (RoundStarted /\ outcome # "Loss") =>
       score = 100
               + 10 * Cardinality({c \in guessedLetters : Occurs(c)})
               - 10 * (maxLives - lives)
               - 5 * hints_used
               + 50 * (IF wordGuessed THEN 1 ELSE 0)
  /\ (/\ pc = "replay"
      /\ secretWord = <<"c", "a", "t">>
      /\ difficulty = <<"h", "a", "r", "d">>
      /\ moves = 4
      /\ guessedLetters = {"c", "z", "a", "t"}) =>
       (outcome = "Win" /\ lives = 2 /\ score = 120)
  /\ (/\ pc = "replay"
      /\ secretWord = <<"c", "a", "t">>
      /\ difficulty = <<"h", "a", "r", "d">>
      /\ moves = 3
      /\ guessedLetters = {"x", "y", "z"}) =>
       (outcome = "Loss" /\ lives = 0 /\ score = 0)

\* "cat" on hard after the guesses c, z, a, t: a Win with score 120
C17_Witness ==
  /\ pc = "replay"
  /\ secretWord = <<"c", "a", "t">>
  /\ difficulty = <<"h", "a", "r", "d">>
  /\ moves = 4
  /\ guessedLetters = {"c", "z", "a", "t"}
  /\ score = 120
  /\ outcome = "Win"

\* "cat" on hard after the guesses x, y, z: a Loss with score 0
C17_WitnessLoss ==
  /\ pc = "replay"
  /\ secretWord = <<"c", "a", "t">>
  /\ difficulty = <<"h", "a", "r", "d">>
  /\ moves = 3
  /\ guessedLetters = {"x", "y", "z"}
  /\ score = 0
  /\ outcome = "Loss"

(***************************************************************************)
(* C18                                                                     *)
(***************************************************************************)
\* C18: whatever wordlist.json and words.csv hold, the secret word of a round
\* is a non-empty string of lowercase letters, and neither it nor maxLives
\* changes from the start of the round to its end.  The first half is
\* refuted: load_words() takes the words of wordlist.json as they are, and
\* load_custom_words() only strips and lowers them.
C18_SecretWord ==
  /\ [](RoundStarted =>
          /\ secretWord # <<>>
          /\ \A i \in DOMAIN secretWord : secretWord[i] \in Range(LowerCase))
  /\ [][(RoundStarted /\ RoundStarted') =>
          (secretWord' = secretWord /\ maxLives' = maxLives)]_vars

\* the half of C18 that holds: within a round the secret word, the difficulty
\* played and maxLives stay as they were set
C18_Immutable ==
  [][(RoundStarted /\ RoundStarted') =>
       /\ secretWord' = secretWord
       /\ maxLives' = maxLives
       /\ difficulty' = difficulty]_vars

(***************************************************************************)
(* C19                                                                     *)
(***************************************************************************)
\* C19: in every state of a round, the start of a turn included,
\* last_hint_lives - lives is 0, 1 or 2; the hint offers made in the round
\* are at most (maxLives - 1) \div 2, which is 3 on easy, 2 on medium, 1 on
\* hard and 2 on custom; and at the start of a turn at which two lives were
\* lost since the last offer, fewer than 3 hints have been used.
C19_Offers ==
  RoundStarted =>
    /\ 0 <= last_hint_lives - lives
    /\ last_hint_lives - lives <= 2
    /\ offers <= (maxLives - 1) \div 2
    /\ difficulty = <<"e", "a", "s", "y">> => offers <= 3
    /\ difficulty = <<"m", "e", "d", "i", "u", "m">> => offers <= 2
    /\ difficulty = <<"h", "a", "r", "d">> => offers <= 1
    /\ difficulty = <<"c", "u", "s", "t", "o", "m">> => offers <= 2
    /\ (/\ pc = "loop"
        /\ lives > 0
        /\ guessedWord # secretWord
        /\ last_hint_lives - lives >= 2) => hints_used < 3

\* the third offer of an easy round, made after an earlier one was declined
C19_Witness ==
  /\ pc = "hint"
  /\ difficulty = <<"e", "a", "s", "y">>
  /\ offers = 3
  /\ hints_used = 1
  /\ last_hint_lives - lives = 2

(***************************************************************************)
(* A session of one round whose player goes on: the program takes its      *)
(* steps, the hint offer is answered, and again and again the guess prompt *)
(* gets a guess that changes the round                                     *)
(***************************************************************************)
\* lines 262-305 with a guess that assigns a local of the round
ProgressGuess == Guess /\ moves' = moves + 1

\* lines 324-333 with an answer that does not start another round
ReplayLast == Replay /\ pc' # "start"

NextLive ==
  \/ Start
  \/ ChooseDifficulty
  \/ LoopHead
  \/ AnswerHint
  \/ Guess
  \/ Report
  \/ ReplayLast

SpecLive ==
  /\ Init
  /\ [][NextLive]_vars
  /\ WF_vars(Start)
  /\ WF_vars(LoopHead)
  /\ WF_vars(Report)
  /\ WF_vars(AnswerHint)
  /\ SF_vars(ProgressGuess)

(***************************************************************************)
(* C20                                                                     *)
(***************************************************************************)
\* the guess is rejected as invalid or as a duplicate
C20_Rejected(g) ==
  /\ ~WordLength(g)
  /\ (~SingleLetter(g) \/ g[1] \in guessedLetters)

\* the number of distinct letters of the secret word
C20_Distinct == Cardinality({secretWord[i] : i \in DOMAIN secretWord})

\* the secret word is a lowercase alphabetic string
C20_LowerAlpha ==
  /\ secretWord # <<>>
  /\ \A i \in DOMAIN secretWord : secretWord[i] \in Range(LowerCase)

\* C20: a guess that is neither the exit token nor rejected as invalid or
\* duplicate removes one life or reveals a position that was hidden; a round
\* with a lowercase alphabetic secret word takes at most
\* maxLives + (distinct letters of the secret word) - 1 guesses that change
\* it, and is over when it took that many; and when the player keeps entering
\* guesses that change the round, every round in play comes to its report
\* unless the player exits.
C20_Terminates ==
  /\ [](pc = "guess" =>
          \A g \in GuessesRead :
            (g # <<"0">> /\ ~C20_Rejected(g)) =>
              \/ ProcessGuess(g).lives = lives - 1
              \/ \E i \in DOMAIN secretWord :
                   /\ guessedWord[i] # secretWord[i]
                   /\ ProcessGuess(g).guessedWord[i] = secretWord[i])
  /\ []((RoundStarted /\ C20_LowerAlpha) =>
          /\ moves <= maxLives + C20_Distinct - 1
          /\ moves = maxLives + C20_Distinct - 1
               => (lives = 0 \/ guessedWord = secretWord))
  /\ (pc = "loop") ~> (pc \in {"report", "exited"})

\* "cat" on hard: the round is over after 3 + 3 - 1 guesses that changed it
C20_Witness ==
  /\ pc = "report"
  /\ secretWord = <<"c", "a", "t">>
  /\ maxLives = 3
  /\ moves = 5

=============================================================================
